---- MODULE Spec2Model ----
(***************************************************************************)
(* CSV utilities of the document-import pipeline:                          *)
(*   dokumentimportoptimizer.py  (get_column_mapping, process_csv, main)   *)
(*   csvRepair_NoLineBreaks.py   (process_csv)                             *)
(* A Python str is modelled as a sequence of characters, every character a *)
(* one-element string; a CSV row is a sequence of such cells.              *)
(***************************************************************************)
EXTENDS Integers, Sequences, FiniteSets, TLC

(***************************************************************************)
(* Characters and the str methods the scripts call.                        *)
(***************************************************************************)
BOM == "U+FEFF"
CR == "\r"
LF == "\n"

\* the characters str.strip() and the regex class \s remove; U+FEFF is not one
Whitespace == {" ", "\t", "\n", "\r"}

UpperLetters == <<"A","B","C","D","E","F","G","H","I","J","K","L","M",
                  "N","O","P","Q","R","S","T","U","V","W","X","Y","Z">>
LowerLetters == <<"a","b","c","d","e","f","g","h","i","j","k","l","m",
                  "n","o","p","q","r","s","t","u","v","w","x","y","z">>

RECURSIVE lstrip(_, _)
lstrip(s, chars) ==
    IF s # <<>> /\ Head(s) \in chars THEN lstrip(Tail(s), chars) ELSE s

RECURSIVE rstrip(_, _)
rstrip(s, chars) ==
    IF s # <<>> /\ s[Len(s)] \in chars
    THEN rstrip(SubSeq(s, 1, Len(s) - 1), chars)
    ELSE s

strip(s) == lstrip(rstrip(s, Whitespace), Whitespace)

lower_char(c) ==
    IF \E k \in 1..Len(UpperLetters) : UpperLetters[k] = c
    THEN LowerLetters[CHOOSE k \in 1..Len(UpperLetters) : UpperLetters[k] = c]
    ELSE c

lower(s) == [k \in 1..Len(s) |-> lower_char(s[k])]

\* sub in s
contains(s, sub) ==
    \E k \in 1..(Len(s) - Len(sub) + 1) : SubSeq(s, k, k + Len(sub) - 1) = sub

startswith(s, prefix) ==
    Len(s) >= Len(prefix) /\ SubSeq(s, 1, Len(prefix)) = prefix

\* s[n:]
slice_from(s, n) == SubSeq(s, n + 1, Len(s))

\* d[k] = v on a dict, modelled as a function
dict_set(d, k, v) == [x \in (DOMAIN d) \cup {k} |-> IF x = k THEN v ELSE d[x]]

EmptyDict == [x \in {} |-> <<>>]

RECURSIVE SeqsUpTo(_, _)
SeqsUpTo(S, n) ==
    IF n = 0 THEN {<<>>}
    ELSE LET shorter == SeqsUpTo(S, n - 1)
         IN shorter \cup {Append(q, x) : q \in {p \in shorter : Len(p) = n - 1}, x \in S}

(***************************************************************************)
(* dokumentimportoptimizer.py: constants and the canonical schema.         *)
(***************************************************************************)
MAX_FILE_SIZE_KB == 950
ROWS_PER_CHUNK == 3800

EXPECTED_COLUMNS ==
    << << <<"D","o","k","u","m","e","n","t","U","r","l","*">>,
          <<"D","o","c","u","m","e","n","t"," ","u","r","l","*">>,
          <<"U","R","L"," ","d","u"," ","d","o","c","u","m","e","n","t","*">> >>,
       << <<"V","e","r","k","n","ü","p","f","u","n","g","s","a","r","t","*">>,
          <<"U","r","l"," ","t","y","p","e","*">>,
          <<"T","y","p","e"," ","d","e"," ","l","i","e","n","*">> >>,
       << <<"A","b","o","n","n","e","m","e","n","t","s">>,
          <<"S","u","b","s","c","r","i","p","t","i","o","n","s">> >>,
       << <<"D","o","k","u","m","e","n","t","b","e","s","c","h","r","e","i","b","u","n","g">>,
          <<"D","o","c","u","m","e","n","t"," ","d","e","s","c","r","i","p","t","i","o","n">>,
          <<"D","e","s","c","r","i","p","t","i","f"," ","d","e","s"," ","d","o","c","u","m","e","n","t","s">> >>,
       << <<"S","p","r","a","c","h","e","*">>,
          <<"L","a","n","g","u","a","g","e","*">>,
          <<"L","a","n","g","u","e","*">> >>,
       << <<"D","o","k","u","m","e","n","t","t","y","p","*">>,
          <<"D","o","c","u","m","e","n","t"," ","t","y","p","e","*">>,
          <<"T","y","p","e"," ","d","e"," ","d","o","c","u","m","e","n","t","*">> >>,
       << <<"D","o","k","u","m","e","n","t","n","u","m","m","e","r">>,
          <<"D","o","c","u","m","e","n","t"," ","i","d","e","n","t","i","f","i","e","r">>,
          <<"I","n","d","i","c","e"," ","d","u"," ","d","o","c","u","m","e","n","t">> >>,
       << <<"A","u","s","g","a","b","e","d","a","t","u","m">>,
          <<"P","u","b","l","i","c","a","t","i","o","n"," ","d","a","t","e">>,
          <<"D","a","t","e"," ","d","e"," ","p","u","b","l","i","c","a","t","i","o","n">> >>,
       << <<"A","c","C","o","d","e","*">> >>,
       << <<"I","D">> >>,
       << <<"H","o","s","t","e","d"," ","D","a","t","e","i"," ","I","D">>,
          <<"H","o","s","t","e","d"," ","f","i","l","e"," ","I","D">>,
          <<"I","D"," ","d","u"," ","f","i","c","h","i","e","r"," ","h","é","b","e","r","g","é">> >>,
       << <<"L","ö","s","c","h","e","n">>,
          <<"D","e","l","e","t","e">>,
          <<"S","u","p","p","r","i","m","e","r">> >> >>

\* the names the code spells out as literals
COL_ACCODE == <<"A","c","C","o","d","e","*">>
COL_ID == <<"I","D">>
CS == <<"C","S">>
HTTP == <<"h","t","t","p">>

\* x in col_variations
in_variations(x, col_variations) ==
    \E k \in 1..Len(col_variations) : col_variations[k] = x

(***************************************************************************)
(* get_column_mapping                                                      *)
(***************************************************************************)
\* header_col.strip().lstrip(BOM)
clean_header(header_col) == lstrip(strip(header_col), {BOM})

\* mutant of first_match: only the canonical name of a column is recognised
RECURSIVE first_match_canonical_only(_, _)
first_match_canonical_only(clean, n) ==
    IF n > Len(EXPECTED_COLUMNS) THEN 0
    ELSE IF clean = EXPECTED_COLUMNS[n][1] THEN n
    ELSE first_match_canonical_only(clean, n + 1)

\* for col_variations in EXPECTED_COLUMNS: if clean in col_variations: ... break
\* the index of the first ColumnSpec that lists clean, 0 when none does
RECURSIVE first_match(_, _)
first_match(clean, n) ==
    IF n > Len(EXPECTED_COLUMNS) THEN 0
    ELSE IF in_variations(clean, EXPECTED_COLUMNS[n]) THEN n
    ELSE first_match(clean, n + 1)

standard_columns == [n \in 1..Len(EXPECTED_COLUMNS) |-> EXPECTED_COLUMNS[n][1]]

\* the loop over header_row: column_mapping[header_col] = standard_col,
\* found_columns.add(standard_col)
RECURSIVE map_headers(_, _, _, _)
map_headers(header_row, n, mapping, found) ==
    IF n > Len(header_row)
    THEN [column_mapping |-> mapping, found_columns |-> found]
    ELSE LET header_col == header_row[n]
             m == first_match(clean_header(header_col), 1)
         IN IF m = 0
            THEN map_headers(header_row, n + 1, mapping, found)
            ELSE map_headers(header_row, n + 1,
                             dict_set(mapping, header_col, EXPECTED_COLUMNS[m][1]),
                             found \cup {EXPECTED_COLUMNS[m][1]})

get_column_mapping(header_row) ==
    LET looped == map_headers(header_row, 1, EmptyDict, {})
    IN [column_mapping |-> looped.column_mapping,
        standard_columns |-> standard_columns,
        missing_columns |->
            SelectSeq(standard_columns, LAMBDA c : c \notin looped.found_columns)]

(***************************************************************************)
(* process_csv: the pure parts of its loops.                               *)
(***************************************************************************)
\* Python's None and False, and a str held by a variable that may be either
None == [py |-> "None"]
False == [py |-> "False"]
Str(s) == [py |-> "str", s |-> s]

\* mutant of looks_like_header: the cells are not lower-cased before the test
looks_like_header_case_sensitive(row) ==
    ~ \E k \in 1..Len(row) : contains(row[k], HTTP)

\* not any('http' in str(val).lower() for val in row)
looks_like_header(row) ==
    ~ \E k \in 1..Len(row) : contains(lower(row[k]), HTTP)

\* header_rows_count after the detection of translated header rows
count_header_rows(file_rows) ==
    IF Len(file_rows) >= 3
       /\ looks_like_header(file_rows[2])
       /\ looks_like_header(file_rows[3])
    THEN 3
    ELSE 1

\* for orig_col_idx, orig_header in enumerate(original_header): ... break
\* the first position (1-based) whose cleaned header is in col_variations, else 0
RECURSIVE find_orig_col(_, _, _)
find_orig_col(header, col_variations, n) ==
    IF n > Len(header) THEN 0
    ELSE IF in_variations(clean_header(header[n]), col_variations) THEN n
    ELSE find_orig_col(header, col_variations, n + 1)

\* col_variations[header_idx] if header_idx < len(col_variations) else col_variations[0]
variation_at(col_variations, header_idx) ==
    IF header_idx < Len(col_variations)
    THEN col_variations[header_idx + 1]
    ELSE col_variations[1]

\* mutant of build_header_row: every header cell comes from the schema
build_header_row_from_schema(file_rows, header_idx) ==
    [c \in 1..Len(EXPECTED_COLUMNS) |-> variation_at(EXPECTED_COLUMNS[c], header_idx)]

\* one pass of "for header_idx in range(header_rows_count)"; header_idx is 0-based
build_header_row(file_rows, header_idx) ==
    [c \in 1..Len(EXPECTED_COLUMNS) |->
        LET col_variations == EXPECTED_COLUMNS[c]
            orig == find_orig_col(file_rows[1], col_variations, 1)
        IN IF orig # 0
              /\ header_idx < Len(file_rows)
              /\ orig <= Len(file_rows[header_idx + 1])
           THEN file_rows[header_idx + 1][orig]
           ELSE variation_at(col_variations, header_idx)]

build_header_rows(file_rows, count) ==
    [h \in 1..count |-> build_header_row(file_rows, h - 1)]

\* row_data: for i, value in enumerate(row): if i < len(original_header): ...
RECURSIVE build_row_data(_, _, _, _, _)
build_row_data(row, header, mapping, n, row_data) ==
    IF n > Len(row) THEN row_data
    ELSE IF n <= Len(header) /\ header[n] \in DOMAIN mapping
    THEN build_row_data(row, header, mapping, n + 1,
                        dict_set(row_data, mapping[header[n]], row[n]))
    ELSE build_row_data(row, header, mapping, n + 1, row_data)

row_data_of(row, header, mapping) ==
    build_row_data(row, header, mapping, 1, EmptyDict)

\* "AcCode*" in row_data and ac_code and ac_code.startswith("CS")
has_cs_code(row_data) ==
    /\ COL_ACCODE \in DOMAIN row_data
    /\ row_data[COL_ACCODE] # <<>>
    /\ startswith(row_data[COL_ACCODE], CS)

\* mutant of is_rewritten: a code of exactly 6 characters is left alone
is_rewritten_beyond_six(row_data, code) ==
    /\ has_cs_code(row_data)
    /\ code.py = "str" /\ code.s # <<>>
    /\ Len(row_data[COL_ACCODE]) > 6

\* if nautos_code: ... if len(ac_code) >= 6: the row is rewritten
is_rewritten(row_data, code) ==
    /\ has_cs_code(row_data)
    /\ code.py = "str" /\ code.s # <<>>
    /\ Len(row_data[COL_ACCODE]) >= 6

\* new_ac_code = f"CS{nautos_code}N" + ac_code[6:]
rewrite_ac_code(row_data, code) ==
    IF is_rewritten(row_data, code)
    THEN dict_set(row_data, COL_ACCODE,
                  CS \o code.s \o <<"N">> \o slice_from(row_data[COL_ACCODE], 6))
    ELSE row_data

\* mutant of fill_new_row: a missing column gets no cell
fill_new_row_no_backfill(row_data) ==
    LET found == SelectSeq(standard_columns, LAMBDA col : col \in DOMAIN row_data)
    IN [c \in 1..Len(found) |->
           IF found[c] = COL_ID THEN <<>> ELSE row_data[found[c]]]

\* mutant of fill_new_row: the ID cell is copied like any other
fill_new_row_keeps_id(row_data) ==
    [c \in 1..Len(standard_columns) |->
        IF standard_columns[c] \in DOMAIN row_data
        THEN row_data[standard_columns[c]]
        ELSE <<>>]

\* for standard_col in standard_columns: new_row.append(...)
fill_new_row(row_data) ==
    [c \in 1..Len(standard_columns) |->
        IF standard_columns[c] \in DOMAIN row_data
        THEN IF standard_columns[c] = COL_ID THEN <<>> ELSE row_data[standard_columns[c]]
        ELSE <<>>]

\* the body of the loop over the data rows, once the token question is settled
reshape_row(row, header, mapping, code) ==
    fill_new_row(rewrite_ac_code(row_data_of(row, header, mapping), code))

\* the values of a dict
dict_values(d) == {d[k] : k \in DOMAIN d}

\* orig_id_index: the first header position mapped to "ID", else 0
RECURSIVE find_id_index(_, _, _)
find_id_index(header, mapping, n) ==
    IF n > Len(header) THEN 0
    ELSE IF header[n] \in DOMAIN mapping /\ mapping[header[n]] = COL_ID THEN n
    ELSE find_id_index(header, mapping, n + 1)

\* id_had_content after the loop over rows[1:]
compute_id_had_content(file_rows, mapping) ==
    /\ COL_ID \in dict_values(mapping)
    /\ \E r \in 2..Len(file_rows) :
          LET orig_id_index == find_id_index(file_rows[1], mapping, 1)
          IN /\ orig_id_index # 0
             /\ orig_id_index <= Len(file_rows[r])
             /\ strip(file_rows[r][orig_id_index]) # <<>>

\* the chunk loop: header_rows + data_rows[start_row:end_row]; chunk_idx is 0-based
\* mutant of num_chunks_of: the division rounds down
num_chunks_rounded_down(total_data_rows) ==
    total_data_rows \div ROWS_PER_CHUNK

num_chunks_of(total_data_rows) ==
    (total_data_rows + ROWS_PER_CHUNK - 1) \div ROWS_PER_CHUNK

min(a, b) == IF a < b THEN a ELSE b

chunk_rows_of(out_rows, count, chunk_idx) ==
    LET header_rows == SubSeq(out_rows, 1, count)
        data_rows == SubSeq(out_rows, count + 1, Len(out_rows))
        total_data_rows == Len(data_rows)
        start_row == chunk_idx * ROWS_PER_CHUNK
        end_row == min(start_row + ROWS_PER_CHUNK, total_data_rows)
    IN header_rows \o SubSeq(data_rows, start_row + 1, end_row)

(***************************************************************************)
(* State.  dokumentimportoptimizer.py runs main -> process_csv; the        *)
(* variables are process_csv's locals, the files it writes, and what main  *)
(* does with its return value.  csvRepair_NoLineBreaks.py's run is the     *)
(* record repair.                                                          *)
(***************************************************************************)
VARIABLES
    pc,                    \* where the run stands
    file_encoding,         \* the codec chosen by the detection loop
    rows,                  \* list(csv_reader): rows[1] is original_header
    column_mapping,        \* raw header -> canonical name
    missing_columns,
    header_rows_count,
    processed_rows,
    row_num,               \* 1-based number of the row the data loop is at
    nautos_code,           \* None, a 3-character str, or False
    ac_code_replacements,
    prompts,               \* calls of input() made for the Nautos code
    code_input,            \* the last entry at that prompt, stripped
    id_had_content,
    output_file,           \* <<>> while not written, else <<the rows written>>
    file_size,             \* os.path.getsize(output_file), in bytes
    should_split,          \* "None" until the confirmation is settled
    chunk_files,           \* the chunk files written, in order
    result,                \* process_csv's return value
    exit_code,             \* the process's exit status, -1 while it runs
    input_file,            \* <<>> if the path does not exist, else <<its rows>>
    prev,                  \* <<>>, or <<header_rows_count of the run whose output is input_file>>
    repair                 \* the run of csvRepair_NoLineBreaks.process_csv

vars == <<pc, file_encoding, rows, column_mapping, missing_columns,
          header_rows_count, processed_rows, row_num, nautos_code,
          ac_code_replacements, prompts, code_input, id_had_content,
          output_file, file_size, should_split, chunk_files, result, exit_code,
          input_file, prev, repair>>

\* process_csv's locals and what it writes
runVars == <<file_encoding, rows, column_mapping, missing_columns,
             header_rows_count, processed_rows, row_num, nautos_code,
             ac_code_replacements, prompts, code_input, id_had_content,
             output_file, file_size, should_split, chunk_files, result,
             exit_code>>

\* what no step of a run changes
envVars == <<input_file, prev, repair>>

original_header == rows[1]

(***************************************************************************)
(* Bounds and the inputs the environment supplies.                         *)
(***************************************************************************)
MaxCols == 2        \* cells in the source's header row
MaxRows == 3        \* rows of the source after its first row
MaxPrompts == 1     \* rejected entries at the Nautos prompt

COL_OTHER == <<"N","o","t","i","z">>
COL_LOESCHEN == <<"L","ö","s","c","h","e","n">>

\* raw header cells: two that match a variant, one that matches none
HeaderCells == {COL_ID, COL_ACCODE, COL_OTHER}

CODE8 == <<"C","S","1","2","3","N","4","5">>
CODE5 == <<"C","S","1","2","3">>

\* source rows after the first: empty, shorter and longer than the header,
\* with and without a URL, with CS codes of 5 and 8 characters
RowPool ==
    { <<>>,
      <<CODE5>>,
      <<<<"H","t","t","p",":","a">>, CODE8, <<"x">>>> }

\* the files at input_file: a header row over HeaderCells and rows of RowPool,
\* and one file that is not valid UTF-8
SourceFiles ==
    {<<h>> \o r : h \in SeqsUpTo(HeaderCells, MaxCols), r \in SeqsUpTo(RowPool, MaxRows)}
    \cup { << <<COL_LOESCHEN>>, <<<<"ü">>>> >> }

is_ascii(file_rows) ==
    \A r \in 1..Len(file_rows) : \A c \in 1..Len(file_rows[r]) :
        \A k \in 1..Len(file_rows[r][c]) : file_rows[r][c][k] \notin {"ö", "ß", "ü", "é"}

\* what the operator types at the Nautos prompt (before .strip())
TokenEntries ==
    { <<"X","Y","Z">>, <<" ","X","Y","Z"," ">>,
      <<" ","A"," ">>, <<"A","B","C","D">> }

\* what the operator types at the split confirmation
SplitEntries == { <<>>, <<"j">>, <<" ","J","A"," ">>, <<"y","e","s">>, <<"n">>, <<"x">> }

\* os.path.getsize of the unsplit output, around the threshold
FileSizes == {MAX_FILE_SIZE_KB * 1024, MAX_FILE_SIZE_KB * 1024 + 1}

RepairIdle == [pc |-> "idle"]

(***************************************************************************)
(* dokumentimportoptimizer.py: main and process_csv as a state machine.    *)
(***************************************************************************)
encodings == <<"utf-8-sig", "utf-8", "latin-1", "iso-8859-1", "cp1252">>

\* for encoding in encodings: try ... break; "None" when no codec decodes
RECURSIVE detect_encoding(_, _)
detect_encoding(decodes, n) ==
    IF n > Len(encodings) THEN "None"
    ELSE IF encodings[n] \in decodes THEN encodings[n]
    ELSE detect_encoding(decodes, n + 1)

\* the codecs that can decode a file: Latin-1 decodes any bytes, UTF-8 with or
\* without signature decodes the same files, pure ASCII decodes under all
DecodableSets(file_rows) ==
    IF is_ascii(file_rows)
    THEN { {"utf-8-sig", "utf-8", "latin-1", "iso-8859-1", "cp1252"} }
    ELSE { {"utf-8-sig", "utf-8", "latin-1", "iso-8859-1", "cp1252"},
           {"latin-1", "iso-8859-1", "cp1252"},
           {"latin-1", "iso-8859-1"} }

\* mutant of exit_status: main never calls sys.exit(1)
exit_status_always_zero(value) == 0

\* main: if process_csv(...): falls off the end (status 0) else: sys.exit(1)
exit_status(value) == IF value = "True" THEN 0 ELSE 1

\* process_csv returns value, and main exits on it
Return(value) ==
    /\ result' = value
    /\ exit_code' = exit_status(value)
    /\ pc' = "exited"

InitOptimizer ==
    /\ file_encoding = "None"
    /\ rows = <<>>
    /\ column_mapping = EmptyDict
    /\ missing_columns = <<>>
    /\ header_rows_count = 1
    /\ processed_rows = <<>>
    /\ row_num = 1
    /\ nautos_code = None
    /\ ac_code_replacements = 0
    /\ prompts = 0
    /\ code_input = <<>>
    /\ id_had_content = FALSE
    /\ output_file = <<>>
    /\ file_size = 0
    /\ should_split = "None"
    /\ chunk_files = <<>>
    /\ result = "None"
    /\ exit_code = -1

Init ==
    /\ pc = "main"
    /\ InitOptimizer
    /\ input_file \in {<<>>} \cup {<<file>> : file \in SourceFiles \cup {<<>>}}
    /\ prev = <<>>
    /\ repair = RepairIdle

\* main: the path comes from sys.argv or is typed at the prompt
MainWithPath ==
    /\ pc = "main"
    /\ pc' = "process_csv"
    /\ UNCHANGED <<file_encoding, rows, column_mapping, missing_columns,
                   header_rows_count, processed_rows, row_num, nautos_code,
                   ac_code_replacements, prompts, code_input, id_had_content,
                   output_file, file_size, should_split, chunk_files, result,
                   exit_code, envVars>>

\* main: nothing typed at the path prompt: sys.exit(1)
MainNoPath ==
    /\ pc = "main"
    /\ exit_code' = 1
    /\ pc' = "exited"
    /\ UNCHANGED <<file_encoding, rows, column_mapping, missing_columns,
                   header_rows_count, processed_rows, row_num, nautos_code,
                   ac_code_replacements, prompts, code_input, id_had_content,
                   output_file, file_size, should_split, chunk_files, result,
                   envVars>>

\* open(input_file) raises FileNotFoundError
InputNotFound ==
    /\ pc = "process_csv"
    /\ input_file = <<>>
    /\ Return("False")
    /\ UNCHANGED <<file_encoding, rows, column_mapping, missing_columns,
                   header_rows_count, processed_rows, row_num, nautos_code,
                   ac_code_replacements, prompts, code_input, id_had_content,
                   output_file, file_size, should_split, chunk_files, envVars>>

\* encoding detection, list(csv_reader), the empty check, get_column_mapping
ReadInput ==
    /\ pc = "process_csv"
    /\ input_file # <<>>
    /\ \E decodes \in DecodableSets(input_file[1]) :
          LET file == input_file[1]
              encoding == detect_encoding(decodes, 1)
              analysis == get_column_mapping(file[1])
          IN /\ file_encoding' = encoding
             /\ IF encoding = "None"
                THEN /\ Return("False")
                     /\ UNCHANGED <<rows, column_mapping, missing_columns>>
                ELSE /\ rows' = file
                     /\ IF Len(file) < 1
                        THEN /\ Return("False")
                             /\ UNCHANGED <<column_mapping, missing_columns>>
                        ELSE /\ column_mapping' = analysis.column_mapping
                             /\ missing_columns' = analysis.missing_columns
                             /\ pc' = "headers"
                             /\ UNCHANGED <<result, exit_code>>
    /\ UNCHANGED <<header_rows_count, processed_rows, row_num, nautos_code,
                   ac_code_replacements, prompts, code_input, id_had_content,
                   output_file, file_size, should_split, chunk_files, envVars>>

\* header-row detection and the header rows of the output
BuildHeaders ==
    /\ pc = "headers"
    /\ header_rows_count' = count_header_rows(rows)
    /\ processed_rows' = build_header_rows(rows, header_rows_count')
    /\ nautos_code' = None
    /\ ac_code_replacements' = 0
    /\ row_num' = header_rows_count' + 1
    /\ pc' = "rows"
    /\ UNCHANGED <<file_encoding, rows, column_mapping, missing_columns,
                   prompts, code_input, id_had_content, output_file, file_size,
                   should_split, chunk_files, result, exit_code, envVars>>

current_row_data == row_data_of(rows[row_num], original_header, column_mapping)

\* mutant of at_prompt: the "if nautos_code is None" test is missing
at_prompt_every_cs_row ==
    /\ pc = "rows"
    /\ row_num <= Len(rows)
    /\ has_cs_code(current_row_data)

\* the data loop stands at a row whose AcCode starts with CS and no code is known
at_prompt ==
    /\ pc = "rows"
    /\ row_num <= Len(rows)
    /\ has_cs_code(current_row_data)
    /\ nautos_code = None

\* input(...).strip() has 3 characters: the code is taken
EnterNautosCode ==
    /\ at_prompt
    /\ \E entry \in TokenEntries :
          /\ Len(strip(entry)) = 3
          /\ code_input' = strip(entry)
          /\ nautos_code' = Str(strip(entry))
    /\ prompts' = prompts + 1
    /\ UNCHANGED <<pc, file_encoding, rows, column_mapping, missing_columns,
                   header_rows_count, processed_rows, row_num,
                   ac_code_replacements, id_had_content, output_file,
                   file_size, should_split, chunk_files, result, exit_code,
                   envVars>>

\* any other entry: "Bitte genau 3 Zeichen eingeben", and the prompt repeats
RejectNautosCode ==
    /\ at_prompt
    /\ prompts < MaxPrompts
    /\ \E entry \in TokenEntries :
          /\ Len(strip(entry)) # 3
          /\ code_input' = strip(entry)
    /\ prompts' = prompts + 1
    /\ UNCHANGED <<pc, file_encoding, rows, column_mapping, missing_columns,
                   header_rows_count, processed_rows, row_num, nautos_code,
                   ac_code_replacements, id_had_content, output_file,
                   file_size, should_split, chunk_files, result, exit_code,
                   envVars>>

\* input() raises EOFError or OSError: nautos_code = False
NoNautosInput ==
    /\ at_prompt
    /\ nautos_code' = False
    /\ prompts' = prompts + 1
    /\ UNCHANGED <<pc, file_encoding, rows, column_mapping, missing_columns,
                   header_rows_count, processed_rows, row_num,
                   ac_code_replacements, code_input, id_had_content,
                   output_file, file_size, should_split, chunk_files, result,
                   exit_code, envVars>>

\* the rest of the loop body for one data row
ProcessRow ==
    /\ pc = "rows"
    /\ row_num <= Len(rows)
    /\ ~ at_prompt
    /\ processed_rows' = Append(processed_rows,
            reshape_row(rows[row_num], original_header, column_mapping, nautos_code))
    /\ ac_code_replacements' =
            IF is_rewritten(current_row_data, nautos_code)
            THEN ac_code_replacements + 1
            ELSE ac_code_replacements
    /\ row_num' = row_num + 1
    /\ UNCHANGED <<pc, file_encoding, rows, column_mapping, missing_columns,
                   header_rows_count, nautos_code, prompts, code_input,
                   id_had_content, output_file, file_size, should_split,
                   chunk_files, result, exit_code, envVars>>

\* mutant of too_big: a file of exactly MAX_FILE_SIZE_KB counts as too big
too_big_at_threshold(size) == size >= MAX_FILE_SIZE_KB * 1024

\* file_size_kb > MAX_FILE_SIZE_KB, with file_size_kb = getsize / 1024
too_big(size) == size > MAX_FILE_SIZE_KB * 1024

\* after the loop: id_had_content, the output file, its size
WriteOutput ==
    /\ pc = "rows"
    /\ row_num > Len(rows)
    /\ id_had_content' = compute_id_had_content(rows, column_mapping)
    /\ output_file' = <<processed_rows>>
    /\ \E size \in FileSizes :
          /\ file_size' = size
          /\ IF too_big(size)
             THEN pc' = "ask_split" /\ UNCHANGED <<result, exit_code>>
             ELSE Return("True")
    /\ UNCHANGED <<file_encoding, rows, column_mapping, missing_columns,
                   header_rows_count, processed_rows, row_num, nautos_code,
                   ac_code_replacements, prompts, code_input, should_split,
                   chunk_files, envVars>>

\* open(output_file, 'w') raises: except Exception, return False
WriteOutputFails ==
    /\ pc = "rows"
    /\ row_num > Len(rows)
    /\ id_had_content' = compute_id_had_content(rows, column_mapping)
    /\ Return("False")
    /\ UNCHANGED <<file_encoding, rows, column_mapping, missing_columns,
                   header_rows_count, processed_rows, row_num, nautos_code,
                   ac_code_replacements, prompts, code_input, output_file,
                   file_size, should_split, chunk_files, envVars>>

\* split_response in ['', 'j', 'ja', 'y', 'yes']
split_confirmed(entry) ==
    lower(strip(entry)) \in {<<>>, <<"j">>, <<"j","a">>, <<"y">>, <<"y","e","s">>}

AnswerSplit ==
    /\ pc = "ask_split"
    /\ \E entry \in SplitEntries :
          IF split_confirmed(entry)
          THEN should_split' = "True" /\ pc' = "split" /\ UNCHANGED <<result, exit_code>>
          ELSE should_split' = "False" /\ Return("True")
    /\ UNCHANGED <<file_encoding, rows, column_mapping, missing_columns,
                   header_rows_count, processed_rows, row_num, nautos_code,
                   ac_code_replacements, prompts, code_input, id_had_content,
                   output_file, file_size, chunk_files, envVars>>

\* input() raises EOFError or OSError at the confirmation: should_split = False
NoSplitInput ==
    /\ pc = "ask_split"
    /\ should_split' = "False"
    /\ Return("True")
    /\ UNCHANGED <<file_encoding, rows, column_mapping, missing_columns,
                   header_rows_count, processed_rows, row_num, nautos_code,
                   ac_code_replacements, prompts, code_input, id_had_content,
                   output_file, file_size, chunk_files, envVars>>

total_data_rows == Len(processed_rows) - header_rows_count

\* one pass of "for chunk_idx in range(num_chunks)"
WriteChunk ==
    /\ pc = "split"
    /\ Len(chunk_files) < num_chunks_of(total_data_rows)
    /\ chunk_files' = Append(chunk_files,
            chunk_rows_of(processed_rows, header_rows_count, Len(chunk_files)))
    /\ UNCHANGED <<pc, file_encoding, rows, column_mapping, missing_columns,
                   header_rows_count, processed_rows, row_num, nautos_code,
                   ac_code_replacements, prompts, code_input, id_had_content,
                   output_file, file_size, should_split, result, exit_code,
                   envVars>>

\* open(chunk_file, 'w') raises: except Exception, return False
WriteChunkFails ==
    /\ pc = "split"
    /\ Len(chunk_files) < num_chunks_of(total_data_rows)
    /\ Return("False")
    /\ UNCHANGED <<file_encoding, rows, column_mapping, missing_columns,
                   header_rows_count, processed_rows, row_num, nautos_code,
                   ac_code_replacements, prompts, code_input, id_had_content,
                   output_file, file_size, should_split, chunk_files, envVars>>

\* the chunk loop is over: return True
FinishSplit ==
    /\ pc = "split"
    /\ Len(chunk_files) = num_chunks_of(total_data_rows)
    /\ Return("True")
    /\ UNCHANGED <<file_encoding, rows, column_mapping, missing_columns,
                   header_rows_count, processed_rows, row_num, nautos_code,
                   ac_code_replacements, prompts, code_input, id_had_content,
                   output_file, file_size, should_split, chunk_files, envVars>>

\* the script is started again on the file the finished run wrote
Rerun ==
    /\ pc = "exited"
    /\ prev = <<>>
    /\ result = "True"
    /\ input_file' = output_file
    /\ prev' = <<header_rows_count>>
    /\ pc' = "main"
    /\ file_encoding' = "None"
    /\ rows' = <<>>
    /\ column_mapping' = EmptyDict
    /\ missing_columns' = <<>>
    /\ header_rows_count' = 1
    /\ processed_rows' = <<>>
    /\ row_num' = 1
    /\ nautos_code' = None
    /\ ac_code_replacements' = 0
    /\ prompts' = 0
    /\ code_input' = <<>>
    /\ id_had_content' = FALSE
    /\ output_file' = <<>>
    /\ file_size' = 0
    /\ should_split' = "None"
    /\ chunk_files' = <<>>
    /\ result' = "None"
    /\ exit_code' = -1
    /\ UNCHANGED repair

Next ==
    \/ MainWithPath
    \/ MainNoPath
    \/ InputNotFound
    \/ ReadInput
    \/ BuildHeaders
    \/ EnterNautosCode
    \/ RejectNautosCode
    \/ NoNautosInput
    \/ ProcessRow
    \/ WriteOutput
    \/ WriteOutputFails
    \/ AnswerSplit
    \/ NoSplitInput
    \/ WriteChunk
    \/ WriteChunkFails
    \/ FinishSplit
    \/ Rerun

Spec == Init /\ [][Next]_vars

(***************************************************************************)
(* csvRepair_NoLineBreaks.py: process_csv and main.  The run is the record *)
(* repair, its fields named after process_csv's locals.                    *)
(***************************************************************************)
BR == <<"<","b","r",">">>
BR_MARKER == <<" ">> \o BR \o <<" ">>
SEMICOLON == ";"
COMMA == ","
COLON == ":"

\* s.str_count(sub): the occurrences of sub in s that do not overlap, from the left
RECURSIVE str_count(_, _)
str_count(s, sub) ==
    IF Len(s) < Len(sub) THEN 0
    ELSE IF SubSeq(s, 1, Len(sub)) = sub
    THEN 1 + str_count(SubSeq(s, Len(sub) + 1, Len(s)), sub)
    ELSE str_count(Tail(s), sub)

\* s.replace(old, new)
RECURSIVE replace(_, _, _)
replace(s, old, new) ==
    IF Len(s) < Len(old) THEN s
    ELSE IF SubSeq(s, 1, Len(old)) = old
    THEN new \o replace(SubSeq(s, Len(old) + 1, Len(s)), old, new)
    ELSE <<Head(s)>> \o replace(Tail(s), old, new)

\* mutant of break_field: the lone characters are replaced before the pairs
break_field_pairs_last(field) ==
    LET count_n == str_count(field, <<LF>>)
        after_n == replace(field, <<LF>>, BR_MARKER)
        count_r == str_count(after_n, <<CR>>)
        after_r == replace(after_n, <<CR>>, BR_MARKER)
        count_rn == str_count(after_r, <<CR, LF>>)
    IN [processed_field |-> replace(after_r, <<CR, LF>>, BR_MARKER),
        replacements |-> count_rn + count_n + count_r]

\* the body of "for field in row": Windows, then Unix, then Mac line breaks
break_field(field) ==
    LET count_rn == str_count(field, <<CR, LF>>)
        after_rn == replace(field, <<CR, LF>>, BR_MARKER)
        count_n == str_count(after_rn, <<LF>>)
        after_n == replace(after_rn, <<LF>>, BR_MARKER)
        count_r == str_count(after_n, <<CR>>)
    IN [processed_field |-> replace(after_n, <<CR>>, BR_MARKER),
        replacements |-> count_rn + count_n + count_r]

RECURSIVE row_replacements(_, _)
row_replacements(row, n) ==
    IF n = 0 THEN 0
    ELSE break_field(row[n]).replacements + row_replacements(row, n - 1)

\* re.sub(r'\s*<br>\s*$', '', field): the marker at the very end of the field
\* goes, with the whitespace on both sides of it
re_sub_trailing_br(field) ==
    LET body == rstrip(field, Whitespace)
    IN IF Len(body) >= Len(BR) /\ SubSeq(body, Len(body) - Len(BR) + 1, Len(body)) = BR
       THEN rstrip(SubSeq(body, 1, Len(body) - Len(BR)), Whitespace)
       ELSE field

\* while True: new_field = re.sub(...); if new_field == field: break; ...
RECURSIVE strip_trailing_br(_, _)
strip_trailing_br(field, removals) ==
    LET new_field == re_sub_trailing_br(field)
    IN IF new_field = field
       THEN [field |-> field, br_removals |-> removals]
       ELSE strip_trailing_br(new_field, removals + 1)

\* field[:50] + "..." if len(field) > 50 else field
preview_of(field) ==
    IF Len(field) > 50 THEN SubSeq(field, 1, 50) \o <<".",".",".">> ELSE field

\* the body of "for col_num, field in enumerate(row)" of the second loop
clean_field(field) ==
    LET replaced == IF contains(field, <<SEMICOLON>>)
                    THEN replace(field, <<SEMICOLON>>, <<COLON>>)
                    ELSE field
        stripped == strip_trailing_br(replaced, 0)
    IN [field |-> stripped.field,
        semicolons |-> str_count(field, <<SEMICOLON>>),
        br_removals |-> stripped.br_removals]

RECURSIVE sum_over(_, _, _)
sum_over(row, n, key) ==
    IF n = 0 THEN 0 ELSE clean_field(row[n])[key] + sum_over(row, n - 1, key)

\* rows_with_semicolons.append((row_num, col_num + 1, preview)), column by column
RECURSIVE semicolon_entries(_, _, _)
semicolon_entries(row, number, n) ==
    IF n > Len(row) THEN <<>>
    ELSE (IF contains(row[n], <<SEMICOLON>>)
          THEN << <<number, n, preview_of(row[n])>> >>
          ELSE <<>>)
         \o semicolon_entries(row, number, n + 1)

F_PLAIN == <<"a","b">>
F_EXAMPLE == <<"l","i","n","e","1",CR,LF,"l","i","n","e","2",LF,LF>>
F_MIXED == <<"a",CR,CR,LF,"b",LF,CR,"c">>
F_SEMI == <<"a",";","b",";">>
F_COMMA == <<"a",",","b">>
F_MARKED == <<"x"," ","<","b","r",">"," "," ","<","b","r",">"," ">>
F_SEMI_BREAK == <<";",CR,LF>>
F_EMPTY == <<>>
F_SPACED == <<"a"," "," ">>
F_BREAK == <<LF>>

MaxRepairRows == 2  \* rows of a file given to csvRepair_NoLineBreaks

\* rows as csv.reader yields them: a blank line, fields with line breaks of
\* every kind, with semicolons, with a comma, with markers typed in the source
RepairRowPool ==
    { <<>>,
      <<F_PLAIN>>,
      <<F_PLAIN, F_EXAMPLE>>,
      <<F_MIXED>>,
      <<F_SEMI, F_PLAIN, F_SEMI_BREAK>>,
      <<F_COMMA, F_PLAIN>>,
      <<F_MARKED, F_EMPTY>>,
      <<F_SPACED, F_BREAK>> }

\* ';' in sample: a semicolon separates two fields or stands inside one
sample_has_semicolon(file) ==
    \/ file.sep = SEMICOLON /\ \E r \in 1..Len(file.rows) : Len(file.rows[r]) >= 2
    \/ \E r \in 1..Len(file.rows) : \E c \in 1..Len(file.rows[r]) :
          contains(file.rows[r][c], <<SEMICOLON>>)

\* delimiter = ';' if ';' in sample else ','
detect_delimiter(file) == IF sample_has_semicolon(file) THEN SEMICOLON ELSE COMMA

\* the files whose separator the detection finds, so that csv.reader yields
\* their rows
RepairFiles ==
    { file \in [sep : {SEMICOLON, COMMA}, rows : SeqsUpTo(RepairRowPool, MaxRepairRows)] :
        detect_delimiter(file) = file.sep }

repair_encodings == <<"utf-8", "latin-1", "iso-8859-1", "cp1252">>

RepairStart(file) ==
    [pc |-> "main", input_file |-> file, file_encoding |-> "None",
     delimiter |-> "None", rows |-> <<>>, processed_rows |-> <<>>,
     total_replacements |-> 0, row_num |-> 0, semicolon_replacements |-> 0,
     br_removals |-> 0, rows_with_semicolons |-> <<>>, output_file |-> <<>>,
     result |-> "None", exit_code |-> -1]

\* the optimizer does not run while the repair script does
optimizerVars == <<pc, file_encoding, rows, column_mapping, missing_columns,
                   header_rows_count, processed_rows, row_num, nautos_code,
                   ac_code_replacements, prompts, code_input, id_had_content,
                   output_file, file_size, should_split, chunk_files, result,
                   exit_code, input_file, prev>>

InitRepair ==
    /\ pc = "not started"
    /\ InitOptimizer
    /\ input_file = <<>>
    /\ prev = <<>>
    /\ repair \in {RepairStart(<<>>)} \cup {RepairStart(<<file>>) : file \in RepairFiles}

\* process_csv returns value, and main exits on it
RepairReturn(value) ==
    [repair EXCEPT !.result = value, !.exit_code = exit_status(value), !.pc = "exited"]

\* open(input_file) raises FileNotFoundError
RepairNotFound ==
    /\ repair.pc = "main"
    /\ repair.input_file = <<>>
    /\ repair' = RepairReturn("False")
    /\ UNCHANGED optimizerVars

\* the encoding, the delimiter, the reader
RepairOpen ==
    /\ repair.pc = "main"
    /\ repair.input_file # <<>>
    /\ repair' = [repair EXCEPT !.file_encoding = repair_encodings[1],
                                !.delimiter = detect_delimiter(repair.input_file[1]),
                                !.rows = repair.input_file[1].rows,
                                !.pc = "breaks"]
    /\ UNCHANGED optimizerVars

\* one pass of "for row_num, row in enumerate(csv_reader, 1)"
RepairBreakRow ==
    /\ repair.pc = "breaks"
    /\ repair.row_num < Len(repair.rows)
    /\ LET row == repair.rows[repair.row_num + 1]
       IN repair' = [repair EXCEPT
             !.row_num = repair.row_num + 1,
             !.processed_rows = Append(repair.processed_rows,
                   [c \in 1..Len(row) |-> break_field(row[c]).processed_field]),
             !.total_replacements =
                   repair.total_replacements + row_replacements(row, Len(row))]
    /\ UNCHANGED optimizerVars

\* the reader is exhausted: the counters of the second loop are set up
RepairBreaksDone ==
    /\ repair.pc = "breaks"
    /\ repair.row_num = Len(repair.rows)
    /\ repair' = [repair EXCEPT !.pc = "semicolons", !.row_num = 0,
                                !.semicolon_replacements = 0, !.br_removals = 0,
                                !.rows_with_semicolons = <<>>]
    /\ UNCHANGED optimizerVars

\* one pass of "for row_num, row in enumerate(processed_rows, 1)"
RepairCleanRow ==
    /\ repair.pc = "semicolons"
    /\ repair.row_num < Len(repair.processed_rows)
    /\ LET number == repair.row_num + 1
           row == repair.processed_rows[number]
       IN repair' = [repair EXCEPT
             !.row_num = number,
             !.processed_rows[number] = [c \in 1..Len(row) |-> clean_field(row[c]).field],
             !.semicolon_replacements =
                   repair.semicolon_replacements + sum_over(row, Len(row), "semicolons"),
             !.br_removals = repair.br_removals + sum_over(row, Len(row), "br_removals"),
             !.rows_with_semicolons =
                   repair.rows_with_semicolons \o semicolon_entries(row, number, 1)]
    /\ UNCHANGED optimizerVars

\* csv_writer.writerows(processed_rows); return True
RepairWrite ==
    /\ repair.pc = "semicolons"
    /\ repair.row_num = Len(repair.processed_rows)
    /\ repair' = [RepairReturn("True") EXCEPT !.output_file = <<repair.processed_rows>>]
    /\ UNCHANGED optimizerVars

\* open(output_file, 'w') raises: except Exception, return False
RepairWriteFails ==
    /\ repair.pc = "semicolons"
    /\ repair.row_num = Len(repair.processed_rows)
    /\ repair' = RepairReturn("False")
    /\ UNCHANGED optimizerVars

NextRepair ==
    \/ RepairNotFound
    \/ RepairOpen
    \/ RepairBreakRow
    \/ RepairBreaksDone
    \/ RepairCleanRow
    \/ RepairWrite
    \/ RepairWriteFails

SpecRepair == InitRepair /\ [][NextRepair]_vars

(***************************************************************************)
(* Header matching on its own: files of one row, whose cells are variants  *)
(* of a column in every language, undecorated and decorated with           *)
(* whitespace and byte-order markers, and cells that name no column.       *)
(***************************************************************************)
MaxMapCols == 2     \* cells in the header row of a MapFiles file

ID_PADDED == <<" ","I","D"," ">>
ID_BOM == <<BOM,"I","D">>
ID_SPACE_BOM == <<" ",BOM,"I","D"," ">>
ID_BOM_SPACE == <<BOM," ","I","D">>
ID_TRAILING_BOM == <<"I","D",BOM>>
ID_LOWER == <<"i","d">>
URL_FR_PADDED == <<"\t">> \o EXPECTED_COLUMNS[1][3] \o <<" ">>

MapCells ==
    { COL_ID, ID_PADDED, ID_BOM, ID_SPACE_BOM, ID_BOM_SPACE, ID_TRAILING_BOM,
      ID_LOWER, COL_OTHER,
      EXPECTED_COLUMNS[1][1], EXPECTED_COLUMNS[1][2], EXPECTED_COLUMNS[1][3],
      URL_FR_PADDED }

MapFiles == { <<h>> : h \in SeqsUpTo(MapCells, MaxMapCols) }

InitMap ==
    /\ pc = "main"
    /\ InitOptimizer
    /\ input_file \in {<<file>> : file \in MapFiles}
    /\ prev = <<>>
    /\ repair = RepairIdle

\* the run up to the end of the header block
NextMap ==
    \/ MainWithPath
    \/ ReadInput
    \/ BuildHeaders

SpecMap == InitMap /\ [][NextMap]_vars

(***************************************************************************)
(* Splitting on its own: the run from the end of the row loop on, over     *)
(* files already in the schema whose data rows are numbered, with row      *)
(* counts around the multiples of ROWS_PER_CHUNK.                          *)
(***************************************************************************)
MaxChunks == 2      \* the largest file has MaxChunks * ROWS_PER_CHUNK + 1 data rows

\* row counts around every multiple of ROWS_PER_CHUNK, and 9000 rows (three
\* chunks of 3800, 3800 and 1400)
SplitSizes ==
    {n \in {m * ROWS_PER_CHUNK + d : m \in 0..MaxChunks, d \in {-1, 0, 1, 2}} : n >= 0}
    \cup {9000}

digit_chars == <<"0","1","2","3","4","5","6","7","8","9">>

\* str(n)
RECURSIVE digits(_)
digits(n) ==
    IF n < 10 THEN <<digit_chars[n + 1]>>
    ELSE digits(n \div 10) \o <<digit_chars[(n % 10) + 1]>>

\* data row k of a split file: its URL names the row
numbered_row(k) ==
    [c \in 1..Len(EXPECTED_COLUMNS) |->
        IF c = 1 THEN <<"h","t","t","p",":">> \o digits(k) ELSE <<>>]

\* the canonical header row, its two translations if any, and n numbered rows
SplitFile(n, translated) ==
    <<standard_columns>>
    \o (IF translated
        THEN << [c \in 1..Len(EXPECTED_COLUMNS) |-> variation_at(EXPECTED_COLUMNS[c], 1)],
                [c \in 1..Len(EXPECTED_COLUMNS) |-> variation_at(EXPECTED_COLUMNS[c], 2)] >>
        ELSE <<>>)
    \o [k \in 1..n |-> numbered_row(k)]

\* process_csv at the end of its row loop over file_rows
after_row_loop(file_rows) ==
    \E mapping \in {get_column_mapping(file_rows[1])},
       count \in {count_header_rows(file_rows)} :
       /\ pc = "rows"
       /\ file_encoding = "utf-8-sig"
       /\ rows = file_rows
       /\ column_mapping = mapping.column_mapping
       /\ missing_columns = mapping.missing_columns
       /\ header_rows_count = count
       /\ processed_rows =
             build_header_rows(file_rows, count)
             \o [k \in 1..(Len(file_rows) - count) |->
                    reshape_row(file_rows[count + k], file_rows[1],
                                mapping.column_mapping, None)]
       /\ row_num = Len(file_rows) + 1
       /\ nautos_code = None
       /\ ac_code_replacements = 0
       /\ prompts = 0
       /\ code_input = <<>>
       /\ id_had_content = FALSE
       /\ output_file = <<>>
       /\ file_size = 0
       /\ should_split = "None"
       /\ chunk_files = <<>>
       /\ result = "None"
       /\ exit_code = -1
       /\ input_file = <<file_rows>>

SplitFiles == {SplitFile(n, translated) : n \in SplitSizes, translated \in BOOLEAN}

InitSplit ==
    /\ \E file_rows \in SplitFiles : after_row_loop(file_rows)
    /\ prev = <<>>
    /\ repair = RepairIdle

NextSplit ==
    \/ WriteOutput
    \/ WriteOutputFails
    \/ AnswerSplit
    \/ NoSplitInput
    \/ WriteChunk
    \/ WriteChunkFails
    \/ FinishSplit

SpecSplit == InitSplit /\ [][NextSplit]_vars

(***************************************************************************)
(* The AcCode rewrite on its own: files with an AcCode and a DokumentUrl*  *)
(* column in either order, whose rows hold AcCode values of every length   *)
(* around the splice offset, with and without the CS prefix.               *)
(***************************************************************************)
MaxRewriteRows == 2     \* data rows of a RewriteFiles file

CODE2 == <<"C","S">>
CODE6 == <<"C","S","1","2","3","N">>
CODE7 == <<"C","S","1","2","3","N","4">>
CODE_LOWER == <<"c","s","1","2","3","N","4","5">>
CODE_SPACED == <<" ","C","S","1","2","3","N","4">>
CODE_OTHER == <<"X","S","1","2","3","N","4","5">>
URL_CELL == <<"h","t","t","p",":","a">>

AcCodeValues ==
    { <<>>, CODE2, CODE5, CODE6, CODE7, CODE8, CODE_LOWER, CODE_SPACED, CODE_OTHER }

\* the URL cell keeps every row after the first a data row
RewriteFiles ==
    { <<h>> \o r :
        h \in { <<COL_ACCODE, EXPECTED_COLUMNS[1][1]>>, <<EXPECTED_COLUMNS[1][1], COL_ACCODE>> },
        r \in SeqsUpTo({ <<v, URL_CELL>> : v \in AcCodeValues }
                       \cup { <<URL_CELL, v>> : v \in {CODE6, CODE8} },
                       MaxRewriteRows) }

InitRewrite ==
    /\ pc = "main"
    /\ InitOptimizer
    /\ input_file \in {<<file>> : file \in RewriteFiles}
    /\ prev = <<>>
    /\ repair = RepairIdle

\* the run up to the end of the row loop
NextRewrite ==
    \/ MainWithPath
    \/ ReadInput
    \/ BuildHeaders
    \/ EnterNautosCode
    \/ RejectNautosCode
    \/ NoNautosInput
    \/ ProcessRow

SpecRewrite == InitRewrite /\ [][NextRewrite]_vars

(***************************************************************************)
(* Properties of dokumentimportoptimizer.process_csv.                      *)
(***************************************************************************)
\* the position of a canonical column in the schema
col_index(name) == CHOOSE c \in 1..Len(standard_columns) : standard_columns[c] = name

\* cell-at(row, position): the cell, or the empty string past the row's end
cell_at(row, p) == IF p <= Len(row) THEN row[p] ELSE <<>>

\* the positions of the source header whose cell names canonical column c
matched_positions(header, c) ==
    {p \in 1..Len(header) : in_variations(clean_header(header[p]), EXPECTED_COLUMNS[c])}

\* "CS" + token + "N" + v[6:]
spliced(v, token) == CS \o token \o <<"N">> \o SubSeq(v, 7, Len(v))

\* the data rows of the source that the loop has reshaped so far
done_rows == (header_rows_count + 1)..Len(processed_rows)

\* what the cell of a reshaped row may be, given the positions of the source
\* header matched to its column
expected_cell(row, c, positions, out_cell) ==
    IF standard_columns[c] = COL_ID \/ positions = {}
    THEN out_cell = <<>>
    ELSE \E p \in positions :
            \/ out_cell = cell_at(row, p)
            \/ /\ standard_columns[c] = COL_ACCODE
               /\ nautos_code.py = "str"
               /\ startswith(cell_at(row, p), CS)
               /\ Len(cell_at(row, p)) >= 6
               /\ out_cell = spliced(cell_at(row, p), nautos_code.s)

\* C1: every reshaped data row, whatever the length of its source row, has
\* exactly 12 cells in schema order: under a canonical column whose raw header
\* was matched, the source row's cell at that header's position (empty when the
\* row ends before it), empty under a missing column, and nothing taken from a
\* position whose header matches no variant; the ID cell is blank and an AcCode
\* cell may be the rewritten code.
C1_ReshapedRows ==
    done_rows # {} =>
        LET positions == [c \in 1..12 |-> matched_positions(rows[1], c)]
        IN \A k \in done_rows :
              /\ Len(processed_rows[k]) = 12
              /\ \A c \in 1..12 :
                    expected_cell(rows[k], c, positions[c], processed_rows[k][c])

\* a run that reshaped a row shorter than the header and a row longer than it,
\* the longer one with a non-empty cell under a header that matches no variant
C1_Witness ==
    /\ pc = "exited"
    /\ result = "True"
    /\ \E k \in done_rows : Len(rows[k]) < Len(rows[1])
    /\ \E k \in done_rows :
          /\ Len(rows[k]) > Len(rows[1])
          /\ \E p \in 1..Len(rows[1]) :
                /\ first_match(clean_header(rows[1][p]), 1) = 0
                /\ rows[k][p] # <<>>
          /\ \E c \in 1..12 : processed_rows[k][c] # <<>>

id_blank(row) == Len(row) >= col_index(COL_ID) /\ row[col_index(COL_ID)] = <<>>

data_rows_id_blank(file_rows) ==
    \A k \in (header_rows_count + 1)..Len(file_rows) : id_blank(file_rows[k])

\* C2: in every row written after the header block (in the rows being built,
\* in the output file and in every chunk file) the cell at the ID position is
\* the empty string.
C2_IdBlank ==
    /\ data_rows_id_blank(processed_rows)
    /\ output_file # <<>> => data_rows_id_blank(output_file[1])
    /\ \A f \in 1..Len(chunk_files) : data_rows_id_blank(chunk_files[f])

\* the source has an ID column, a data row holds content in it, and the output
\* and a chunk file have been written
C2_Witness ==
    /\ output_file # <<>>
    /\ chunk_files # <<>>
    /\ \E k \in done_rows : \E p \in matched_positions(rows[1], col_index(COL_ID)) :
          cell_at(rows[k], p) # <<>>

\* the finished run read the rows an earlier run wrote (all headers canonical,
\* in schema order)
second_pass ==
    /\ pc = "exited"
    /\ prev # <<>>
    /\ result = "True"
    /\ input_file[1][1] = standard_columns

\* the rows written are the rows read, cell by cell; only an AcCode cell that
\* the token rewrite touched in this pass may differ
same_rows(written, read) ==
    /\ Len(written) = Len(read)
    /\ \A k \in 1..Len(read) :
          /\ Len(written[k]) = Len(read[k])
          /\ \A c \in 1..Len(read[k]) :
                (c # col_index(COL_ACCODE) \/ ac_code_replacements = 0)
                    => written[k][c] = read[k][c]

\* C6 as stated: the second pass writes the same header rows and data rows and
\* consumes the same number of rows as header rows as the first pass did.
C6_Claim ==
    second_pass => /\ same_rows(output_file[1], input_file[1])
                   /\ header_rows_count = prev[1]

\* C6 amended: the second pass writes exactly the rows it read, no cell renamed,
\* moved or newly blanked (an AcCode cell only if the token rewrite touched it);
\* the number of rows it consumes as header rows is never smaller than in the
\* first pass, and can be 3 after 1.
C6_Idempotent ==
    second_pass => /\ same_rows(output_file[1], input_file[1])
                   /\ header_rows_count >= prev[1]

\* a second pass that rewrote no AcCode, over rows with a data row that holds
\* content
C6_Witness ==
    /\ second_pass
    /\ ac_code_replacements = 0
    /\ \E k \in done_rows : \E c \in 1..12 : processed_rows[k][c] # <<>>

\* the output, and every chunk file if splitting was confirmed, is written
writing_complete ==
    /\ output_file # <<>>
    /\ should_split = "True" => Len(chunk_files) = num_chunks_of(total_data_rows)

\* C10: a run whose input path does not exist, or whose input has zero rows,
\* returns False, exits with status 1 and writes neither the output file nor a
\* chunk file; a run that wrote everything returns True and exits with 0.
C10_Outcome ==
    /\ (input_file = <<>> \/ input_file = << <<>> >>) =>
          /\ output_file = <<>>
          /\ chunk_files = <<>>
          /\ (pc = "exited" /\ result # "None") => (result = "False" /\ exit_code = 1)
    /\ (pc = "exited" /\ writing_complete) => (result = "True" /\ exit_code = 0)

\* process_csv has returned on an input of zero rows
C10_Witness ==
    /\ pc = "exited"
    /\ input_file = << <<>> >>
    /\ result = "False"

\* no data row before the current one carries an AcCode that starts with "CS"
first_cs_row ==
    \A k \in (header_rows_count + 1)..(row_num - 1) :
        ~ has_cs_code(row_data_of(rows[k], original_header, column_mapping))

\* the AcCode cell of the row the loop appended in this step
new_ac_cell == processed_rows'[Len(processed_rows')][col_index(COL_ACCODE)]

C9_Step ==
    \* once the attempt has ended, with a token or without, the outcome stays
    \* and nothing prompts again
    /\ (pc = "rows" /\ nautos_code # None) =>
          (nautos_code' = nautos_code /\ prompts' = prompts)
    \* a prompt happens only at the first CS row; it repeats only on an entry
    \* that is not 3 characters long, and accepts the entry that is
    /\ (pc = "rows" /\ prompts' # prompts) =>
          /\ nautos_code = None
          /\ row_num <= Len(rows)
          /\ has_cs_code(current_row_data)
          /\ first_cs_row
          /\ nautos_code' = None => Len(code_input') # 3
          /\ nautos_code'.py = "str" =>
                (Len(code_input') = 3 /\ nautos_code'.s = code_input')
          /\ nautos_code' = False => (pc' = "rows" /\ result' = "None")
    \* every matching row after the acceptance carries the accepted token
    /\ ( /\ pc = "rows"
         /\ Len(processed_rows') > Len(processed_rows)
         /\ nautos_code.py = "str"
         /\ has_cs_code(current_row_data)
         /\ Len(current_row_data[COL_ACCODE]) >= 6 ) =>
          /\ new_ac_cell = spliced(current_row_data[COL_ACCODE], code_input)
          /\ ac_code_replacements' = ac_code_replacements + 1
    \* without a token no row is rewritten
    /\ ( /\ pc = "rows"
         /\ Len(processed_rows') > Len(processed_rows)
         /\ nautos_code = False
         /\ has_cs_code(current_row_data) ) =>
          /\ new_ac_cell = current_row_data[COL_ACCODE]
          /\ ac_code_replacements' = ac_code_replacements
    \* and the run that wrote its output succeeds all the same
    /\ (pc' = "exited" /\ nautos_code = False /\ writing_complete') =>
          result' = "True"

\* C9: in one run the token is acquired at most once: only the first data row
\* whose AcCode starts with "CS" prompts, the prompt repeats only while the
\* entry is not exactly 3 characters long, an accepted token is reused
\* unchanged on every later matching row without another prompt, and after
\* an attempt that ended without an interactive source no row prompts, no row
\* is rewritten and the run still succeeds.
C9_TokenOnce == [][C9_Step]_vars

\* a run that rejected one entry, accepted the next and rewrote two rows with it
C9_Witness ==
    /\ pc = "exited"
    /\ result = "True"
    /\ nautos_code.py = "str"
    /\ prompts = 2
    /\ ac_code_replacements >= 2

(***************************************************************************)
(* Properties of get_column_mapping and of the header-row builder.         *)
(***************************************************************************)
\* get_column_mapping has run on the header row
mapped == pc \in {"headers", "rows"}

\* the columns that list the text among their variants
columns_of(text) == {c \in 1..Len(EXPECTED_COLUMNS) : in_variations(text, EXPECTED_COLUMNS[c])}

\* surrounding whitespace removed, then byte-order markers at the front
trimmed(cell) == lstrip(strip(cell), {BOM})

\* whitespace and byte-order markers removed at the front in any arrangement,
\* whitespace at the end
undecorated(cell) == lstrip(rstrip(cell, Whitespace), Whitespace \cup {BOM})

variant_independent ==
    \A p \in 1..Len(rows[1]) : \A c \in columns_of(rows[1][p]) :
        /\ rows[1][p] \in DOMAIN column_mapping
        /\ column_mapping[rows[1][p]] = EXPECTED_COLUMNS[c][1]

missing_is_complement ==
    missing_columns =
        SelectSeq(standard_columns, LAMBDA name : name \notin dict_values(column_mapping))

\* C4 as stated: a cell equal to a variant of column c maps to c's canonical
\* name whichever variant it is, a cell equal to no variant of any column has
\* no mapping entry, and the missing list is the canonical names that are not
\* a value of the mapping, in schema order.
C4_Claim ==
    mapped =>
        /\ variant_independent
        /\ \A p \in 1..Len(rows[1]) :
              columns_of(rows[1][p]) = {} => rows[1][p] \notin DOMAIN column_mapping
        /\ missing_is_complement

\* C4 amended: as stated, except that the cells without a mapping entry are
\* those that equal no variant once surrounding whitespace and then leading
\* byte-order markers are removed (a padded cell such as " ID " has an entry,
\* keyed by the raw cell).
C4_Mapping ==
    mapped =>
        /\ variant_independent
        /\ \A p \in 1..Len(rows[1]) :
              columns_of(trimmed(rows[1][p])) = {} => rows[1][p] \notin DOMAIN column_mapping
        /\ missing_is_complement

\* a header with a translated variant of a column and a cell that names none
C4_Witness ==
    /\ mapped
    /\ \E p \in 1..Len(rows[1]) :
          /\ rows[1][p] = EXPECTED_COLUMNS[1][3]
          /\ column_mapping[rows[1][p]] = EXPECTED_COLUMNS[1][1]
    /\ \E p \in 1..Len(rows[1]) :
          /\ columns_of(trimmed(rows[1][p])) = {}
          /\ rows[1][p] \notin DOMAIN column_mapping

\* C5: a header cell with a leading byte-order marker and leading or trailing
\* whitespace, in any arrangement, is matched by get_column_mapping to the
\* column of the undecorated cell, and the header-row builder finds the column
\* too and copies the first such cell of the source into the header block.
C5_Claim ==
    /\ mapped =>
          \A p \in 1..Len(rows[1]) : \A c \in columns_of(undecorated(rows[1][p])) :
              /\ rows[1][p] \in DOMAIN column_mapping
              /\ column_mapping[rows[1][p]] = EXPECTED_COLUMNS[c][1]
    /\ pc = "rows" =>
          \A c \in 1..Len(EXPECTED_COLUMNS) :
              LET found == {p \in 1..Len(rows[1]) : c \in columns_of(undecorated(rows[1][p]))}
              IN found # {} =>
                    processed_rows[1][c] = rows[1][CHOOSE p \in found : \A q \in found : p <= q]

(***************************************************************************)
(* Properties of the chunk loop.                                           *)
(***************************************************************************)
\* ceil(n / ROWS_PER_CHUNK)
ceil_chunks(n) == (n \div ROWS_PER_CHUNK) + (IF n % ROWS_PER_CHUNK = 0 THEN 0 ELSE 1)

\* the data rows of a written file
data_rows_in(file_rows) == Len(file_rows) - header_rows_count

\* chunk k is the header block of the unsplit output followed by the data
\* rows (k-1)*ROWS_PER_CHUNK+1 .. min(k*ROWS_PER_CHUNK, n) in their order
chunk_is_slice(k, n) ==
    LET chunk == chunk_files[k]
        first == (k - 1) * ROWS_PER_CHUNK + 1
        last == IF k * ROWS_PER_CHUNK < n THEN k * ROWS_PER_CHUNK ELSE n
    IN /\ Len(chunk) = header_rows_count + (last - first + 1)
       /\ \A h \in 1..header_rows_count : chunk[h] = output_file[1][h]
       /\ \A j \in first..last :
             chunk[header_rows_count + (j - first + 1)] = output_file[1][header_rows_count + j]
       /\ data_rows_in(chunk) >= 1
       /\ data_rows_in(chunk) <= ROWS_PER_CHUNK
       /\ k < ceil_chunks(n) => data_rows_in(chunk) = ROWS_PER_CHUNK

RECURSIVE sum_data_rows(_)
sum_data_rows(k) == IF k = 0 THEN 0 ELSE data_rows_in(chunk_files[k]) + sum_data_rows(k - 1)

\* C3: splitting n data rows writes exactly ceil(n / ROWS_PER_CHUNK) chunk
\* files; chunk k is a copy of all header rows of the unsplit output followed
\* by data rows (k-1)*ROWS_PER_CHUNK+1 .. min(k*ROWS_PER_CHUNK, n) in order, so
\* every chunk but the last has ROWS_PER_CHUNK data rows, the last between 1
\* and ROWS_PER_CHUNK, and the chunks' data rows together are the n data rows,
\* none duplicated, dropped or reordered.
C3_Chunks ==
    should_split = "True" =>
        LET n == data_rows_in(output_file[1])
        IN /\ Len(chunk_files) <= ceil_chunks(n)
           /\ \A k \in 1..Len(chunk_files) : chunk_is_slice(k, n)
           /\ (pc = "exited" /\ result = "True") =>
                 /\ Len(chunk_files) = ceil_chunks(n)
                 /\ sum_data_rows(Len(chunk_files)) = n

\* a finished split into several chunks, the last one not full
C3_Witness ==
    /\ pc = "exited"
    /\ result = "True"
    /\ should_split = "True"
    /\ Len(chunk_files) >= 2
    /\ data_rows_in(chunk_files[Len(chunk_files)]) < ROWS_PER_CHUNK

(***************************************************************************)
(* Properties of csvRepair_NoLineBreaks.process_csv.                       *)
(***************************************************************************)
\* the line breaks of a field: every LF (alone or after a CR) and every CR
\* that no LF follows
line_breaks(f) ==
    Cardinality({i \in 1..Len(f) : f[i] = LF})
    + Cardinality({i \in 1..Len(f) : f[i] = CR /\ (i = Len(f) \/ f[i + 1] # LF)})

\* the field read once from the left, a marker for each line break
RECURSIVE marked(_)
marked(f) ==
    IF f = <<>> THEN <<>>
    ELSE IF Len(f) >= 2 /\ f[1] = CR /\ f[2] = LF THEN BR_MARKER \o marked(SubSeq(f, 3, Len(f)))
    ELSE IF f[1] \in {CR, LF} THEN BR_MARKER \o marked(Tail(f))
    ELSE <<f[1]>> \o marked(Tail(f))

RECURSIVE breaks_in_row(_, _)
breaks_in_row(row, n) ==
    IF n = 0 THEN 0 ELSE line_breaks(row[n]) + breaks_in_row(row, n - 1)

RECURSIVE breaks_in_rows(_, _)
breaks_in_rows(file_rows, n) ==
    IF n = 0 THEN 0
    ELSE breaks_in_row(file_rows[n], Len(file_rows[n])) + breaks_in_rows(file_rows, n - 1)

\* the field ends with a marker, whitespace after it or not
ends_with_marker(f) ==
    LET body == rstrip(f, Whitespace)
    IN Len(body) >= 4 /\ SubSeq(body, Len(body) - 3, Len(body)) = BR

\* nothing but markers and whitespace, and at least one marker
RECURSIVE only_markers(_)
only_markers(s) ==
    LET t == lstrip(s, Whitespace)
    IN /\ startswith(t, BR)
       /\ \/ lstrip(SubSeq(t, 5, Len(t)), Whitespace) = <<>>
          \/ only_markers(SubSeq(t, 5, Len(t)))

\* out is what is left of full once its trailing markers are gone
trailing_markers_removed(full, out) ==
    /\ Len(out) <= Len(full)
    /\ SubSeq(full, 1, Len(out)) = out
    /\ ~ ends_with_marker(out)
    /\ out # full => only_markers(SubSeq(full, Len(out) + 1, Len(full)))

\* the rows the first loop has gone through
rows_broken == IF repair.pc = "breaks" THEN repair.row_num ELSE Len(repair.rows)

repair_done == repair.pc = "exited" /\ repair.result = "True"

LINE1_LINE2 == <<"l","i","n","e","1"," ","<","b","r",">"," ","l","i","n","e","2">>

\* C7: in every field each CR+LF pair becomes one marker and counts once,
\* each other LF and CR becomes one marker, so no CR or LF is left; trailing
\* markers go, with the whitespace around them, until the field does not end
\* with a marker ("line1\r\nline2\n\n" becomes "line1 <br> line2"); the
\* replacement total is the number of pairs plus lone LFs plus lone CRs over
\* all fields.
C7_LineBreaks ==
    /\ repair.pc \in {"breaks", "semicolons", "exited"} =>
          repair.total_replacements = breaks_in_rows(repair.rows, rows_broken)
    /\ (repair.pc = "semicolons" /\ repair.row_num = 0) =>
          \A r \in 1..Len(repair.rows) : \A c \in 1..Len(repair.rows[r]) :
              repair.processed_rows[r][c] = marked(repair.rows[r][c])
    /\ repair_done =>
          /\ Len(repair.output_file[1]) = Len(repair.rows)
          /\ \A r \in 1..Len(repair.rows) :
                /\ Len(repair.output_file[1][r]) = Len(repair.rows[r])
                /\ \A c \in 1..Len(repair.rows[r]) :
                      LET in == repair.rows[r][c]
                          out == repair.output_file[1][r][c]
                          full == [k \in 1..Len(marked(in)) |->
                                     IF marked(in)[k] = SEMICOLON THEN COLON ELSE marked(in)[k]]
                      IN /\ \A k \in 1..Len(out) : out[k] \notin {CR, LF}
                         /\ trailing_markers_removed(full, out)
                         /\ in = F_EXAMPLE => out = LINE1_LINE2

\* a finished run over the example field and a field with a lone CR, a pair,
\* a lone LF and another lone CR
C7_Witness ==
    /\ repair_done
    /\ \E r \in 1..Len(repair.rows) : \E c \in 1..Len(repair.rows[r]) :
          repair.rows[r][c] = F_EXAMPLE /\ repair.output_file[1][r][c] = LINE1_LINE2
    /\ \E r \in 1..Len(repair.rows) : \E c \in 1..Len(repair.rows[r]) :
          repair.rows[r][c] = F_MIXED
    /\ repair.total_replacements = 7

RECURSIVE delimiters_in_row(_, _)
delimiters_in_row(row, n) ==
    IF n = 0 THEN 0
    ELSE Cardinality({k \in 1..Len(row[n]) : row[n][k] = repair.delimiter})
         + delimiters_in_row(row, n - 1)

RECURSIVE delimiters_in_rows(_, _)
delimiters_in_rows(file_rows, n) ==
    IF n = 0 THEN 0
    ELSE delimiters_in_row(file_rows[n], Len(file_rows[n])) + delimiters_in_rows(file_rows, n - 1)

\* C8: whichever delimiter was detected, semicolon or comma, no field of the
\* output contains it, the reported count is the number of its occurrences in
\* the fields read, and every field that held one is recorded with its 1-based
\* row and column.
C8_Claim ==
    repair_done =>
        /\ \A r \in 1..Len(repair.output_file[1]) :
              \A c \in 1..Len(repair.output_file[1][r]) :
                  ~ contains(repair.output_file[1][r][c], <<repair.delimiter>>)
        /\ repair.semicolon_replacements = delimiters_in_rows(repair.rows, Len(repair.rows))
        /\ {<<e[1], e[2]>> : e \in {repair.rows_with_semicolons[k] :
                                      k \in 1..Len(repair.rows_with_semicolons)}}
           = {rc \in (1..Len(repair.rows)) \X (1..3) :
                 /\ rc[2] <= Len(repair.rows[rc[1]])
                 /\ contains(repair.rows[rc[1]][rc[2]], <<repair.delimiter>>)}

(***************************************************************************)
(* Properties of the size check and the split confirmation.                *)
(***************************************************************************)
\* the step restarts the script on the file it wrote
restarts == pc = "exited" /\ pc' = "main"

C11_Step ==
    \* a chunk is written only after the whole output, found larger than
    \* MAX_FILE_SIZE_KB, and after an affirmative answer
    /\ chunk_files' # chunk_files /\ ~ restarts =>
          /\ output_file = <<processed_rows>>
          /\ output_file' = output_file
          /\ file_size > MAX_FILE_SIZE_KB * 1024
          /\ should_split = "True"
          /\ Len(chunk_files') = Len(chunk_files) + 1
    \* the size is taken once, in the step that writes the output
    /\ file_size' # file_size /\ ~ restarts =>
          (output_file = <<>> /\ output_file' = <<processed_rows>>)
    \* the confirmation is asked once, and only about a file that is too large
    /\ should_split' # should_split /\ ~ restarts =>
          /\ should_split = "None"
          /\ pc = "ask_split"
          /\ file_size > MAX_FILE_SIZE_KB * 1024
          /\ chunk_files = <<>>
    \* a confirmation that is not given, or cannot be read, ends the run with
    \* success, the output in place and no chunk
    /\ (pc = "ask_split" /\ should_split' = "False") =>
          /\ pc' = "exited"
          /\ result' = "True"
          /\ exit_code' = 0
          /\ output_file' = output_file
          /\ chunk_files' = <<>>

\* C11: chunk files are written only after the unsplit output has been written
\* completely, only if its size, taken exactly once, exceeds MAX_FILE_SIZE_KB
\* and the operator confirmed the split; when the confirmation cannot be read,
\* no chunk file is written, the output stays in place and the run succeeds.
C11_SplitOnlyConfirmed == [][C11_Step]_vars

\* a run whose output was too large and whose confirmation was not given:
\* it has ended with success, the output written, no chunk
C11_Witness ==
    /\ pc = "exited"
    /\ file_size > MAX_FILE_SIZE_KB * 1024
    /\ should_split = "False"
    /\ output_file = <<processed_rows>>
    /\ Len(processed_rows) > header_rows_count
    /\ chunk_files = <<>>
    /\ result = "True"

(***************************************************************************)
(* Properties of the AcCode rewrite.                                       *)
(***************************************************************************)
\* the position of the source column whose header is the text
position_of(header, text) == CHOOSE p \in 1..Len(header) : header[p] = text

\* v starts with "CS"
has_marker(v) == Len(v) >= 2 /\ v[1] = "C" /\ v[2] = "S"

\* the AcCode cell written for the source value v when the token t is known
spliced_as_claimed(v, t, out) ==
    IF has_marker(v) /\ Len(v) >= 6
    THEN /\ Len(out) = Len(v)
         /\ <<out[1], out[2]>> = <<"C", "S">>
         /\ <<out[3], out[4], out[5]>> = t
         /\ out[6] = "N"
         /\ \A i \in 7..Len(v) : out[i] = v[i]
    ELSE out = v

\* C12: with a 3-character token t, the AcCode cell of a data row whose value
\* v starts with "CS" becomes "CS" + t + "N" + v[6:] when len(v) >= 6 (just
\* "CS" + t + "N" at length 6; always as long as v, every character from
\* offset 6 on kept) and stays v when len(v) < 6; a value that does not start
\* with "CS", the empty one included, never changes, and no other cell
\* changes.
C12_Splice ==
    \A k \in done_rows :
        LET v == cell_at(rows[k], position_of(rows[1], COL_ACCODE))
            url == cell_at(rows[k], position_of(rows[1], EXPECTED_COLUMNS[1][1]))
            out == processed_rows[k]
        IN /\ nautos_code.py = "str" =>
                 /\ Len(nautos_code.s) = 3
                 /\ spliced_as_claimed(v, nautos_code.s, out[col_index(COL_ACCODE)])
           /\ nautos_code.py # "str" => out[col_index(COL_ACCODE)] = v
           /\ ~ has_marker(v) => out[col_index(COL_ACCODE)] = v
           /\ out[1] = url
           /\ \A c \in 2..12 : c # col_index(COL_ACCODE) => out[c] = <<>>

\* with a token known, a code of exactly 6 characters was rewritten, a code of
\* 5 was left alone and a CS code in the URL column was left alone
C12_Witness ==
    /\ nautos_code.py = "str"
    /\ \E k \in done_rows :
          /\ cell_at(rows[k], position_of(rows[1], COL_ACCODE)) = CODE6
          /\ processed_rows[k][col_index(COL_ACCODE)] = CS \o nautos_code.s \o <<"N">>
    /\ \E k \in done_rows :
          \/ /\ cell_at(rows[k], position_of(rows[1], COL_ACCODE)) = CODE5
             /\ processed_rows[k][col_index(COL_ACCODE)] = CODE5
          \/ /\ cell_at(rows[k], position_of(rows[1], EXPECTED_COLUMNS[1][1])) = CODE8
             /\ processed_rows[k][1] = CODE8

(***************************************************************************)
(* Properties of the header block.                                         *)
(***************************************************************************)
\* the cell holds h, t, t, p in a row, in either case
mentions_http(cell) ==
    \E i \in 1..(Len(cell) - 3) :
        /\ cell[i] \in {"h", "H"}
        /\ cell[i + 1] \in {"t", "T"}
        /\ cell[i + 2] \in {"t", "T"}
        /\ cell[i + 3] \in {"p", "P"}

url_free(row) == \A c \in 1..Len(row) : ~ mentions_http(row[c])

headers_as_claimed ==
    IF Len(rows) >= 3 /\ url_free(rows[2]) /\ url_free(rows[3]) THEN 3 ELSE 1

\* the k-th variant name of column c, the canonical name when there is none
variant_name(c, k) ==
    IF k <= Len(EXPECTED_COLUMNS[c]) THEN EXPECTED_COLUMNS[c][k] ELSE EXPECTED_COLUMNS[c][1]

\* the first position of the source header matched to column c (0: missing)
first_position(c) ==
    IF matched_positions(rows[1], c) = {} THEN 0
    ELSE CHOOSE p \in matched_positions(rows[1], c) :
            \A q \in matched_positions(rows[1], c) : p <= q

headers_built == processed_rows # <<>>

\* the count of header rows, and that every later source row is a data row
header_count_as_claimed ==
    /\ header_rows_count = headers_as_claimed
    /\ Len(processed_rows) >= header_rows_count
    /\ pc = "rows" => Len(processed_rows) = row_num - 1
    /\ pc # "rows" => Len(processed_rows) = Len(rows)

\* the claim as written: a found column always shows the source cell of row k
C13_Claim ==
    headers_built =>
        /\ header_count_as_claimed
        /\ \A k \in 1..header_rows_count : \A c \in 1..12 :
              processed_rows[k][c] =
                  IF first_position(c) # 0
                  THEN cell_at(rows[k], first_position(c))
                  ELSE variant_name(c, k)

\* C13: 3 header rows are consumed exactly when the input has at least 3 rows
\* and no cell of rows 2 and 3 contains "http" in any case, else 1; output
\* header row k holds, per canonical column, the cell of source row k at the
\* first position matched to the column when the column was found and row k
\* reaches that position, else the column's k-th variant name (the canonical
\* name when there is no k-th variant); every later source row is processed as
\* a data row.
C13_Headers ==
    headers_built =>
        /\ header_count_as_claimed
        /\ \A k \in 1..header_rows_count : \A c \in 1..12 :
              /\ Len(processed_rows[k]) = 12
              /\ processed_rows[k][c] =
                  IF first_position(c) # 0 /\ first_position(c) <= Len(rows[k])
                  THEN rows[k][first_position(c)]
                  ELSE variant_name(c, k)

\* three header rows were consumed and a data row followed; a found column
\* shows a source cell in header row 2 and, row 3 being too short, the
\* variant name in header row 3
C13_Witness ==
    /\ pc = "exited"
    /\ header_rows_count = 3
    /\ Len(processed_rows) > 3
    /\ \E c \in 1..12 :
          /\ first_position(c) # 0
          /\ first_position(c) <= Len(rows[2])
          /\ processed_rows[2][c] = rows[2][first_position(c)]
          /\ first_position(c) > Len(rows[3])
          /\ processed_rows[3][c] = variant_name(c, 3)

(***************************************************************************)
(* Properties of the ID report.                                            *)
(***************************************************************************)
\* a data row of the source holds content under a header mapped to ID
data_row_has_id ==
    \E k \in (header_rows_count + 1)..Len(rows) :
        \E p \in matched_positions(rows[1], col_index(COL_ID)) :
            cell_at(rows[k], p) # <<>>

\* C14: at the end of a run id_had_content is true exactly when the source has
\* a column mapped to "ID" and at least one data row, a row after the 1 or 3
\* consumed header rows, held non-empty content in that column before the
\* redaction.
C14_Claim ==
    (pc = "exited" /\ result = "True") => (id_had_content <=> data_row_has_id)

(***************************************************************************)
(* Header cells and data cells of one column.                              *)
(***************************************************************************)
\* the header cells of column c are those of source position p
header_cells_from(c, p) ==
    \A k \in 1..header_rows_count :
        processed_rows[k][c] =
            IF p <= Len(rows[k]) THEN rows[k][p] ELSE variant_name(c, k)

\* the data cells of column c are those of source position p
data_cells_from(c, p) ==
    \A k \in done_rows : expected_cell(rows[k], c, {p}, processed_rows[k][c])

\* C15: for every canonical column that was found, the header cells and the
\* data cells of the output are taken from one and the same source position,
\* also when two or more raw header cells map to the column.
C15_Claim ==
    headers_built =>
        \A c \in 1..12 :
            matched_positions(rows[1], c) # {} =>
                \E p \in matched_positions(rows[1], c) :
                    header_cells_from(c, p) /\ data_cells_from(c, p)

====
